---- MODULE Spec2Model ----
(***************************************************************************)
(* Student Directory Management Core of the school management portal:      *)
(* identifier generation and record creation (models/student.py), the      *)
(* listing queries, and the CSV bulk import, on top of the record store    *)
(* adapter (database.py); the login queries; the photo files of the        *)
(* students, their thumbnails and the retention sweep                      *)
(* (utils/file_handler.py); the list and edit routes (routes/students.py). *)
(*                                                                         *)
(* Text values are sequences of one-character strings, so that formatting, *)
(* trimming and LIKE matching are computed and not assumed.                *)
(***************************************************************************)
EXTENDS Integers, Sequences, FiniteSets, TLC

\* ------------------------------------------------------------------ bounds
MaxStudents == 2      \* rows the Students_114 table may hold in the directory runs
NumProcs == 2         \* concurrent requests that are inside Student.create
MaxLines == 3         \* physical lines after the header in an imported file
MaxPage == 4          \* the highest page number a caller of get_paginated asks for
MaxTotal == 6         \* the highest total the count query answers

\* --------------------------------------------------------- text primitives
DigitChars == <<"0", "1", "2", "3", "4", "5", "6", "7", "8", "9">>

DigitSet == {DigitChars[i] : i \in 1..10}

Whitespace == {" ", "\t", "\n"}

RECURSIVE Digits(_)
\* str(n) for n >= 0
Digits(n) == IF n < 10 THEN <<DigitChars[n + 1]>>
             ELSE Digits(n \div 10) \o <<DigitChars[(n % 10) + 1]>>

\* s[-k:]
LastChars(s, k) == IF Len(s) <= k THEN s ELSE SubSeq(s, Len(s) - k + 1, Len(s))

\* s[:k]
FirstChars(s, k) == IF Len(s) <= k THEN s ELSE SubSeq(s, 1, k)

RECURSIVE ZeroPad(_, _)
\* the format specification 04d: pad on the left to width w, never truncate
ZeroPad(s, w) == IF Len(s) >= w THEN s ELSE ZeroPad(<<"0">> \o s, w)

LowerLetters == <<"a", "b", "c", "d", "e", "f", "g", "h", "i", "j", "k", "l", "m",
                  "n", "o", "p", "q", "r", "s", "t", "u", "v", "w", "x", "y", "z">>

UpperLetters == <<"A", "B", "C", "D", "E", "F", "G", "H", "I", "J", "K", "L", "M",
                  "N", "O", "P", "Q", "R", "S", "T", "U", "V", "W", "X", "Y", "Z">>

\* character tables of str.lower() and str.upper()
LowerMap == [c \in {UpperLetters[i] : i \in 1..26} |->
                LowerLetters[CHOOSE i \in 1..26 : UpperLetters[i] = c]]

UpperMap == [c \in {LowerLetters[i] : i \in 1..26} |->
                UpperLetters[CHOOSE i \in 1..26 : LowerLetters[i] = c]]

LowerChar(c) == IF c \in DOMAIN LowerMap THEN LowerMap[c] ELSE c

UpperChar(c) == IF c \in DOMAIN UpperMap THEN UpperMap[c] ELSE c

\* str.lower()
Lower(s) == [i \in 1..Len(s) |-> LowerChar(s[i])]

\* str.upper()
Upper(s) == [i \in 1..Len(s) |-> UpperChar(s[i])]

RECURSIVE LStrip(_)
LStrip(s) == IF s # <<>> /\ Head(s) \in Whitespace THEN LStrip(Tail(s)) ELSE s

RECURSIVE RStrip(_)
RStrip(s) == IF s # <<>> /\ s[Len(s)] \in Whitespace
             THEN RStrip(SubSeq(s, 1, Len(s) - 1)) ELSE s

\* str.strip()
Strip(s) == RStrip(LStrip(s))

\* needle occurs in hay as a contiguous run
Contains(hay, needle) ==
    \E i \in 0..(Len(hay) - Len(needle)) : SubSeq(hay, i + 1, i + Len(needle)) = needle

RECURSIVE LikeMatch(_, _)
\* text LIKE pat under a case-insensitive collation: % in the pattern stands
\* for any run of characters and _ for any one character
LikeMatch(text, pat) ==
    IF pat = <<>> THEN text = <<>>
    ELSE IF Head(pat) = "%"
    THEN LikeMatch(text, Tail(pat)) \/ (text # <<>> /\ LikeMatch(Tail(text), pat))
    ELSE /\ text # <<>>
         /\ (Head(pat) = "_" \/ LowerChar(Head(text)) = LowerChar(Head(pat)))
         /\ LikeMatch(Tail(text), Tail(pat))

STU == <<"S", "T", "U">>

\* --------------------------------------------------- record store adapter
\* Keys a Python subscript can carry: a position (int) or a column name (str).
IntKey(i) == [isInt |-> TRUE, pos |-> i, name |-> ""]

StrKey(n) == [isInt |-> FALSE, pos |-> 0, name |-> n]

\* query_db turns every fetched row into dict(zip(columns, row)): a mapping
\* whose keys are the column names of cursor.description, all of them strings.
\* An aggregate without alias, COUNT(*), has the empty column name.
CountRow(n) == [c \in {""} |-> n]

\* row[key] on such a mapping: an int never equals a str key, so a positional
\* subscript raises KeyError
PyGetItem(row, key) ==
    IF ~key.isInt /\ key.name \in DOMAIN row
    THEN [raised |-> FALSE, val |-> row[key.name]]
    ELSE [raised |-> TRUE, val |-> 0]

StudentColumns == {"ID", "StudentID", "FirstName", "LastName", "Gender", "Class",
                   "GuardianName", "AdmissionDate", "Photo", "Status"}

\* ----------------------------------------------------------------- inputs
CurrentYear == 2026

\* str(uuid.uuid4())[:8].upper(): eight hexadecimal characters
UuidDraws == { <<"3", "f", "2", "a", "9", "c", "1", "b">>,
               <<"1", "2", "3", "4", "5", "6", "7", "8">> }

tA == <<"A">>

tAb == <<"A", "b">>

tB == <<"B">>

tF == <<"F">>

tM == <<"M">>

tC1 == <<"c", "1">>

tC2 == <<"c", "2">>

\* the data mapping a caller hands to Student.create
DataSamples ==
    { [first_name |-> tA, last_name |-> tAb, gender |-> tF, class_name |-> tC1,
       guardian_name |-> tB, admission_date |-> <<"2">>],
      [first_name |-> tB, last_name |-> tA, gender |-> tM, class_name |-> tC2,
       guardian_name |-> <<>>, admission_date |-> <<"1">>] }

Procs == 1..NumProcs

NoReq == [student_id |-> <<>>, data |-> <<>>]

NoRet == [op |-> "none"]

NoImport == [phase |-> "idle"]

VARIABLES
    store,       \* table Students_114, in insertion order
    nextId,      \* the IDENTITY value the next inserted row receives
    pc,          \* per request: "idle", or "insert" between id generation and INSERT
    pending,     \* per request: the identifier and data Student.create holds
    overlapped,  \* history: some Student.create began while another was unfinished
    outage,      \* history: some store call failed
    imp,         \* the running bulk_import_from_csv call
    ret,         \* what the last finished call returned or raised
    files,       \* the paths that exist under static/uploads
    superseded   \* history: the filenames a later photo replaced in a row

vars == <<store, nextId, pc, pending, overlapped, outage, imp, ret, files, superseded>>

\* ------------------------------------------------- identifier generation
YearSuffix == LastChars(Digits(CurrentYear), 2)

\* f"STU{year_suffix}{count:04d}"
FormatStudentId(count) == STU \o YearSuffix \o ZeroPad(Digits(count), 4)

\* f"STU{str(uuid.uuid4())[:8].upper()}"
FallbackId(u) == STU \o Upper(FirstChars(u, 8))

\* SELECT COUNT(*) FROM Students_114 WHERE StudentID LIKE 'STU<yy>%'
CountLike(st, prefix) ==
    Cardinality({i \in 1..Len(st) : FirstChars(Lower(st[i].StudentID), Len(prefix)) = Lower(prefix)})

CountEq(st, id) ==
    Cardinality({i \in 1..Len(st) : Lower(st[i].StudentID) = Lower(id)})

\* Student._student_id_exists: any exception answers False
StudentIdExists(st, up, id) ==
    IF ~up THEN FALSE
    ELSE LET r == PyGetItem(CountRow(CountEq(st, id)), IntKey(0))
         IN IF r.raised THEN FALSE ELSE r.val > 0

RECURSIVE UniqueFrom(_, _, _)
\* the while loop of _generate_student_id
UniqueFrom(st, up, count) ==
    IF StudentIdExists(st, up, FormatStudentId(count))
    THEN UniqueFrom(st, up, count + 1)
    ELSE FormatStudentId(count)

\* a generator that lets the failure of its count query escape: no identifier
GenerateStudentIdNoFallback(st, up, u) == IF ~up THEN <<>> ELSE FallbackId(u)

\* Student._generate_student_id against store st; up = the store answers,
\* u = the uuid drawn on the fallback path
GenerateStudentId(st, up, u) ==
    IF ~up THEN FallbackId(u)
    ELSE LET r == PyGetItem(CountRow(CountLike(st, STU \o YearSuffix)), IntKey(0))
         IN IF r.raised THEN FallbackId(u)
            ELSE UniqueFrom(st, up, r.val + 1)

\* validate_student_id_format: re.match(r'^STU\d{6}$', student_id.upper())
ValidateStudentIdFormat(id) ==
    LET s == Upper(id)
        body == IF Len(s) = 10 /\ s[10] = "\n" THEN SubSeq(s, 1, 9) ELSE s
    IN /\ id # <<>>
       /\ Len(body) = 9
       /\ SubSeq(body, 1, 3) = STU
       /\ \A i \in 4..9 : body[i] \in DigitSet

\* a Photo column that is NULL
NoPhoto == <<>>

\* generate_password_hash and check_password_hash: a hash stands for the one
\* text it verifies
PasswordHash(text) == [hash |-> text]

CheckPasswordHash(pwhash, password) == pwhash = PasswordHash(password)

\* line 25: f"{data['last_name'].lower()}{student_id[-4:]}"
DefaultPassword(data, student_id) == Lower(data.last_name) \o LastChars(student_id, 4)

\* the row the INSERT of Student.create writes; data.get('photo') for Photo
NewRow(id, student_id, data) ==
    [ID |-> id, StudentID |-> student_id, FirstName |-> data.first_name,
     LastName |-> data.last_name, Gender |-> data.gender, Class |-> data.class_name,
     GuardianName |-> data.guardian_name, AdmissionDate |-> data.admission_date,
     Photo |-> IF "photo" \in DOMAIN data THEN data.photo ELSE NoPhoto,
     Password |-> PasswordHash(DefaultPassword(data, student_id)),
     Status |-> "active"]

\* ------------------------------------------------------------ Student.create
\* lines 22-25: the identifier is generated, the INSERT is still to come
CreateBegin(p) ==
    /\ pc[p] = "idle"
    /\ Len(store) + Cardinality({q \in Procs : pc[q] = "insert"}) < MaxStudents
    /\ \E data \in DataSamples, up \in BOOLEAN, u \in UuidDraws :
          /\ pending' = [pending EXCEPT ![p] =
                            [student_id |-> GenerateStudentId(store, up, u), data |-> data]]
          /\ outage' = (outage \/ ~up)
    /\ pc' = [pc EXCEPT ![p] = "insert"]
    /\ overlapped' = (overlapped \/ \E q \in Procs \ {p} : pc[q] = "insert")
    /\ ret' = NoRet
    /\ UNCHANGED <<store, nextId, imp, files, superseded>>

\* lines 60-66: execute_db(INSERT); a store failure is re-raised
CreateInsert(p) ==
    /\ pc[p] = "insert"
    /\ \E up \in BOOLEAN :
          IF up
          THEN /\ store' = Append(store, NewRow(nextId, pending[p].student_id, pending[p].data))
               /\ nextId' = nextId + 1
               /\ ret' = [op |-> "create", raised |-> FALSE, rowcount |-> 1,
                          student_id |-> pending[p].student_id]
               /\ UNCHANGED outage
          ELSE /\ ret' = [op |-> "create", raised |-> TRUE]
               /\ outage' = TRUE
               /\ UNCHANGED <<store, nextId>>
    /\ pc' = [pc EXCEPT ![p] = "idle"]
    /\ pending' = [pending EXCEPT ![p] = NoReq]
    /\ UNCHANGED <<overlapped, imp, files, superseded>>

\* ------------------------------------------------- update and status flips
\* a field_mapping that also lets the identifier column be written
FieldMappingWithStudentId ==
    [first_name |-> "FirstName", last_name |-> "LastName", gender |-> "Gender",
     date_of_birth |-> "DateOfBirth", guardian_name |-> "GuardianName",
     guardian_phone |-> "GuardianPhone", guardian_email |-> "GuardianEmail",
     address |-> "Address", class_name |-> "Class", teacher_id |-> "TeacherID",
     medical_info |-> "MedicalInfo", emergency_contact |-> "EmergencyContact",
     emergency_phone |-> "EmergencyPhone", photo |-> "Photo", status |-> "Status",
     student_id |-> "StudentID"]

\* field_mapping of Student.update, restricted to the columns of the table model
FieldMapping ==
    [first_name |-> "FirstName", last_name |-> "LastName", gender |-> "Gender",
     date_of_birth |-> "DateOfBirth", guardian_name |-> "GuardianName",
     guardian_phone |-> "GuardianPhone", guardian_email |-> "GuardianEmail",
     address |-> "Address", class_name |-> "Class", teacher_id |-> "TeacherID",
     medical_info |-> "MedicalInfo", emergency_contact |-> "EmergencyContact",
     emergency_phone |-> "EmergencyPhone", photo |-> "Photo", status |-> "Status"]

\* data mappings handed to Student.update: vals holds the keys with a value,
\* nones the keys whose value is None
UpdateSamples ==
    { [vals |-> [status |-> "inactive"], nones |-> {}],
      [vals |-> [status |-> "graduated"], nones |-> {}],
      [vals |-> [status |-> "active", class_name |-> tC2], nones |-> {"photo"}],
      [vals |-> [student_id |-> FormatStudentId(1)], nones |-> {"teacher_id"}] }

StatusSamples == {"active", "inactive", "graduated"}

\* the keys that reach the SET list: in field_mapping and not None
UpdateFields(data) == {k \in DOMAIN data.vals : k \in DOMAIN FieldMapping}

\* the SET list applied to one row
ApplyUpdate(row, data) ==
    [c \in DOMAIN row |->
        IF \E k \in UpdateFields(data) : FieldMapping[k] = c
        THEN data.vals[CHOOSE k \in UpdateFields(data) : FieldMapping[k] = c]
        ELSE row[c]]

\* UPDATE Students_114 SET <data> WHERE ID = id
UpdateWhereId(st, id, data) ==
    [i \in 1..Len(st) |-> IF st[i].ID = id THEN ApplyUpdate(st[i], data) ELSE st[i]]

\* UPDATE Students_114 SET Status = status WHERE ID = id
SetStatus(st, id, status) ==
    [i \in 1..Len(st) |-> IF st[i].ID = id THEN [st[i] EXCEPT !.Status = status] ELSE st[i]]

\* the internal IDs a caller may name: the existing ones and one that is absent
IdSamples == 1..nextId

\* Student.update
Update ==
    /\ store # <<>>
    /\ \E data \in UpdateSamples :
          IF UpdateFields(data) = {}
          THEN /\ ret' = [op |-> "update", raised |-> FALSE]
               /\ UNCHANGED <<store, outage>>
          ELSE \E up \in BOOLEAN :
                  IF up
                  THEN /\ \E id \in IdSamples : store' = UpdateWhereId(store, id, data)
                       /\ ret' = [op |-> "update", raised |-> FALSE]
                       /\ UNCHANGED outage
                  ELSE /\ ret' = [op |-> "update", raised |-> TRUE]
                       /\ outage' = TRUE
                       /\ UNCHANGED store
    /\ UNCHANGED <<nextId, pc, pending, overlapped, imp, files, superseded>>

\* Student.soft_delete
SoftDelete ==
    /\ store # <<>>
    /\ \E up \in BOOLEAN :
          IF up
          THEN /\ \E id \in IdSamples : store' = SetStatus(store, id, "inactive")
               /\ ret' = [op |-> "soft_delete", raised |-> FALSE]
               /\ UNCHANGED outage
          ELSE /\ ret' = [op |-> "soft_delete", raised |-> TRUE]
               /\ outage' = TRUE
               /\ UNCHANGED store
    /\ UNCHANGED <<nextId, pc, pending, overlapped, imp, files, superseded>>

\* Student.update_status: a store failure answers False instead of raising
UpdateStatus ==
    /\ store # <<>>
    /\ \E up \in BOOLEAN :
          IF up
          THEN /\ \E id \in IdSamples, status \in StatusSamples :
                     store' = SetStatus(store, id, status)
               /\ ret' = [op |-> "update_status", raised |-> FALSE, value |-> TRUE]
               /\ UNCHANGED outage
          ELSE /\ ret' = [op |-> "update_status", raised |-> FALSE, value |-> FALSE]
               /\ outage' = TRUE
               /\ UNCHANGED store
    /\ UNCHANGED <<nextId, pc, pending, overlapped, imp, files, superseded>>

\* ----------------------------------------------------------------- listings
\* the order a case-insensitive collation gives the characters of the model
CollationChars == <<" ">> \o DigitChars \o LowerLetters

RankMap == [c \in {CollationChars[i] : i \in 1..Len(CollationChars)} |->
               CHOOSE i \in 1..Len(CollationChars) : CollationChars[i] = c]

CharRank(c) == IF LowerChar(c) \in DOMAIN RankMap THEN RankMap[LowerChar(c)] ELSE 0

RECURSIVE TextLeq(_, _)
TextLeq(a, b) ==
    IF a = <<>> THEN TRUE
    ELSE IF b = <<>> THEN FALSE
    ELSE IF CharRank(Head(a)) # CharRank(Head(b)) THEN CharRank(Head(a)) < CharRank(Head(b))
    ELSE TextLeq(Tail(a), Tail(b))

TextEq(a, b) == Lower(a) = Lower(b)

\* every sequence that lists the index set S once and respects the relation
\* leq (a set of pairs): the orders an ORDER BY without tie-break may deliver
SortedOrders(S, leq) ==
    LET n == Cardinality(S)
    IN { f \in [1..n -> S] :
            /\ \A i, j \in 1..n : i # j => f[i] # f[j]
            /\ \A i, j \in 1..n : i < j => <<f[i], f[j]>> \in leq }

\* _row_to_dict on a row-mapping of query_db: the first positional subscript
\* of a non-empty row decides whether it raises
RowToDict(row, st) ==
    LET g(k) == PyGetItem(row, IntKey(k))
    IN IF DOMAIN row = {} THEN [raised |-> FALSE, id |-> 0]
       ELSE IF g(0).raised \/ g(1).raised THEN [raised |-> TRUE, id |-> 0]
       ELSE [raised |-> FALSE, id |-> g(0).val]

\* the row-mapping query_db builds for the listing SELECTs
ListingRow(r) ==
    [c \in {"ID", "StudentID", "FirstName", "LastName", "Gender", "Class",
            "GuardianName", "AdmissionDate", "Status"} |-> r[c]]

\* WHERE s.Status = 'active'
ActiveIdx(st) == {i \in 1..Len(st) : st[i].Status = "active"}

\* the list comprehension over the fetched rows: the ids of the converted
\* rows, or the first exception
ConvertRows(st, order) ==
    IF \E i \in 1..Len(order) : RowToDict(ListingRow(st[order[i]]), st).raised
    THEN [raised |-> TRUE, items |-> <<>>]
    ELSE [raised |-> FALSE,
          items |-> [i \in 1..Len(order) |-> RowToDict(ListingRow(st[order[i]]), st).id]]

\* get_all without its status filter, its rows read by column name
GetAllOutcomeUnfiltered(st, up, order) ==
    IF ~up THEN [op |-> "get_all", raised |-> TRUE, items |-> <<>>]
    ELSE [op |-> "get_all", raised |-> FALSE, items |-> [i \in 1..Len(st) |-> st[i].ID]]

\* Student.get_all; order = the fetched rows as the store delivered them
GetAllOutcome(st, up, order) ==
    IF ~up THEN [op |-> "get_all", raised |-> TRUE, items |-> <<>>]
    ELSE [op |-> "get_all", raised |-> ConvertRows(st, order).raised,
          items |-> ConvertRows(st, order).items]

\* ORDER BY s.LastName, s.FirstName
GetAllOrders(st) ==
    LET Leq(i, j) == \/ ~TextLeq(st[j].LastName, st[i].LastName)
                     \/ /\ TextEq(st[i].LastName, st[j].LastName)
                        /\ TextLeq(st[i].FirstName, st[j].FirstName)
        S == ActiveIdx(st)
    IN SortedOrders(S, {pr \in S \X S : Leq(pr[1], pr[2])})

GetAll ==
    /\ \E up \in BOOLEAN, order \in GetAllOrders(store) :
          /\ ret' = GetAllOutcome(store, up, order)
          /\ outage' = (outage \/ ~up)
    /\ UNCHANGED <<store, nextId, pc, pending, overlapped, imp, files, superseded>>

\* search_param = f"%{search}%": the caller's text goes into the pattern as it is
SearchParam(search) == <<"%">> \o search \o <<"%">>

\* the WHERE clause of get_paginated: LIKE search_param on four columns under a
\* case-insensitive collation, = on class and gender
Matches(r, search, class_filter, gender_filter) ==
    /\ r.Status = "active"
    /\ search # <<>> =>
          \/ LikeMatch(r.FirstName, SearchParam(search))
          \/ LikeMatch(r.LastName, SearchParam(search))
          \/ LikeMatch(r.StudentID, SearchParam(search))
          \/ LikeMatch(r.GuardianName, SearchParam(search))
    /\ class_filter # <<>> => TextEq(r.Class, class_filter)
    /\ gender_filter # <<>> => TextEq(r.Gender, gender_filter)

MatchIdx(st, a) ==
    {i \in 1..Len(st) : Matches(st[i], a.search, a.class_filter, a.gender_filter)}

ValidSortColumns == {"first_name", "last_name", "student_id", "class", "admission_date"}

SortColumnMap ==
    [first_name |-> "FirstName", last_name |-> "LastName", student_id |-> "StudentID",
     class |-> "Class", admission_date |-> "AdmissionDate"]

\* a fallback to first_name instead of last_name
SortColumnFallbackFirstName(a) ==
    SortColumnMap[IF a.sort_by \in ValidSortColumns THEN a.sort_by ELSE "first_name"]

\* lines 118-135: the column and direction that reach ORDER BY
SortColumn(a) ==
    SortColumnMap[IF a.sort_by \in ValidSortColumns THEN a.sort_by ELSE "last_name"]

SortDescending(a) == Lower(a.sort_order) = <<"d", "e", "s", "c">>

PageOrders(st, a) ==
    LET col == SortColumn(a)
        Leq(i, j) == IF SortDescending(a) THEN TextLeq(st[j][col], st[i][col])
                     ELSE TextLeq(st[i][col], st[j][col])
        S == MatchIdx(st, a)
    IN SortedOrders(S, {pr \in S \X S : Leq(pr[1], pr[2])})

Min(x, y) == IF x < y THEN x ELSE y

Max(x, y) == IF x < y THEN y ELSE x

\* OFFSET ? ROWS FETCH NEXT ? ROWS ONLY
OffsetFetch(order, offset, n) ==
    IF offset >= Len(order) THEN <<>>
    ELSE SubSeq(order, offset + 1, Min(Len(order), offset + n))

\* lines 147-148 and 171-180: the pagination dict; 0 stands for None in
\* prev_num and next_num
Pagination(page, per_page, total_count) ==
    LET total_pages == (total_count + per_page - 1) \div per_page
    IN [page |-> page, per_page |-> per_page,
        total |-> total_count, pages |-> total_pages,
        has_prev |-> page > 1, has_next |-> page < total_pages,
        prev_num |-> IF page > 1 THEN page - 1 ELSE 0,
        next_num |-> IF page < total_pages THEN page + 1 ELSE 0]

\* a get_paginated that answers a store failure with a result built from
\* what it has: no items and a total of 0
GetPaginatedOutcomePartial(st, up, a, order) ==
    LET count == PyGetItem(CountRow(Cardinality(MatchIdx(st, a))), IntKey(0))
        total_count == IF up THEN count.val ELSE 0
        offset == (a.page - 1) * a.per_page
        students == IF up THEN ConvertRows(st, OffsetFetch(order, offset, a.per_page))
                    ELSE [raised |-> FALSE, items |-> <<>>]
        pagination == Pagination(a.page, a.per_page, total_count)
    IN IF up /\ (count.raised \/ students.raised)
       THEN [op |-> "get_paginated", raised |-> TRUE, args |-> a, items |-> <<>>]
       ELSE [op |-> "get_paginated", raised |-> FALSE, args |-> a,
             items |-> students.items,
             page |-> pagination.page, per_page |-> pagination.per_page,
             total |-> pagination.total, pages |-> pagination.pages,
             has_prev |-> pagination.has_prev, has_next |-> pagination.has_next,
             prev_num |-> pagination.prev_num, next_num |-> pagination.next_num]

\* Student.get_paginated; order = the matching rows as the store sorted them
GetPaginatedOutcome(st, up, a, order) ==
    LET count == PyGetItem(CountRow(Cardinality(MatchIdx(st, a))), IntKey(0))
        total_count == count.val
        offset == (a.page - 1) * a.per_page
        students == ConvertRows(st, OffsetFetch(order, offset, a.per_page))
        pagination == Pagination(a.page, a.per_page, total_count)
    IN IF ~up \/ count.raised \/ students.raised
       THEN [op |-> "get_paginated", raised |-> TRUE, args |-> a, items |-> <<>>]
       ELSE [op |-> "get_paginated", raised |-> FALSE, args |-> a,
             items |-> students.items,
             page |-> pagination.page, per_page |-> pagination.per_page,
             total |-> pagination.total, pages |-> pagination.pages,
             has_prev |-> pagination.has_prev, has_next |-> pagination.has_next,
             prev_num |-> pagination.prev_num, next_num |-> pagination.next_num]

PageArg(page, per_page, search, class_filter, gender_filter, sort_by, sort_order) ==
    [page |-> page, per_page |-> per_page, search |-> search,
     class_filter |-> class_filter, gender_filter |-> gender_filter,
     sort_by |-> sort_by, sort_order |-> sort_order]

tAsc == <<"a", "s", "c">>

tDesc == <<"D", "E", "S", "C">>

\* arguments of get_paginated the callers of the model pass
PageArgs ==
    { PageArg(1, 5, <<>>, <<>>, <<>>, "last_name", tAsc),
      PageArg(1, 2, <<>>, <<>>, <<>>, "last_name", tAsc),
      PageArg(2, 2, <<>>, <<>>, <<>>, "student_id", tDesc),
      PageArg(3, 2, <<>>, <<>>, <<>>, "first_name", tAsc),
      PageArg(1, 2, <<"a">>, <<>>, <<>>, "name; DROP", tAsc),
      PageArg(1, 5, <<>>, tC1, tF, "class", <<"u", "p">>),
      PageArg(2, 5, <<"b">>, tC2, <<>>, "admission_date", tDesc),
      PageArg(1, 2, <<"_">>, <<>>, <<>>, "last_name", tAsc) }

GetPaginated ==
    /\ \E a \in PageArgs, up \in BOOLEAN :
       \E order \in (IF up THEN PageOrders(store, a) ELSE {<<>>}) :
          /\ ret' = GetPaginatedOutcome(store, up, a, order)
          /\ outage' = (outage \/ ~up)
    /\ UNCHANGED <<store, nextId, pc, pending, overlapped, imp, files, superseded>>

\* the per_page values of the callers
PerPageSamples == {1, 2, 5, 20}

\* lines 147-148 and 171-180 for one page, page size and total of the count
\* query
Paginate ==
    /\ \E page \in 1..MaxPage, per_page \in PerPageSamples, total_count \in 0..MaxTotal :
          ret' = [op |-> "pagination", result |-> Pagination(page, per_page, total_count)]
    /\ UNCHANGED <<store, nextId, pc, pending, overlapped, outage, imp, files, superseded>>

\* ------------------------------------------------------------------- login
\* the rows WHERE StudentID = ? AND Status = 'active' selects
ActiveWithStudentId(st, student_id) ==
    {i \in 1..Len(st) : Lower(st[i].StudentID) = Lower(student_id)
                           /\ st[i].Status = "active"}

\* the row-mapping query_db builds for the SELECT of authenticate
LoginRow(r) ==
    [c \in {"ID", "StudentID", "FirstName", "LastName", "Password", "Status"} |-> r[c]]

\* a login that looks at no status and reads its row by column name
AuthenticateOutcomeAnyStatus(st, up, student_id, password, first) ==
    LET hits == {i \in 1..Len(st) : Lower(st[i].StudentID) = Lower(student_id)}
        row == st[CHOOSE i \in hits : TRUE]
    IN IF ~up \/ hits = {} THEN 0
       ELSE IF CheckPasswordHash(row.Password, password) THEN row.ID ELSE 0

\* Student.authenticate; first = the row the store delivers first, 0 when it
\* delivers none; the result is the id of the user, 0 for None. Every
\* exception is swallowed and answers None
AuthenticateOutcome(st, up, student_id, password, first) ==
    IF ~up \/ first = 0 THEN 0
    ELSE LET pwhash == PyGetItem(LoginRow(st[first]), IntKey(4))
             id == PyGetItem(LoginRow(st[first]), IntKey(0))
         IN IF pwhash.raised THEN 0
            ELSE IF ~CheckPasswordHash(pwhash.val, password) THEN 0
            ELSE IF id.raised THEN 0
            ELSE id.val

\* Student.get_by_student_id: the first active row with this StudentID through
\* _row_to_dict; every exception is swallowed and answers None (0)
GetByStudentIdOutcome(st, up, student_id, first) ==
    IF ~up \/ first = 0 THEN 0
    ELSE IF RowToDict(st[first], st).raised THEN 0
    ELSE RowToDict(st[first], st).id

\* an identifier no row of the model carries
UnknownStudentId == FormatStudentId(1)

\* the identifiers typed into the login form
LoginIdSamples(st) == {st[i].StudentID : i \in 1..Len(st)} \cup {UnknownStudentId}

\* the passwords typed: the default passwords of the model's students and a
\* wrong one
PasswordSamples ==
    {DefaultPassword(d, FallbackId(u)) : d \in DataSamples, u \in UuidDraws}
        \cup {<<"x">>}

\* the rows the store may deliver first for a query that selects the rows hits
FirstRows(hits) == IF hits = {} THEN {0} ELSE hits

Authenticate ==
    /\ \E student_id \in LoginIdSamples(store), password \in PasswordSamples,
          up \in BOOLEAN :
       \E first \in FirstRows(ActiveWithStudentId(store, student_id)) :
          /\ ret' = [op |-> "authenticate", student_id |-> student_id,
                     password |-> password,
                     user |-> AuthenticateOutcome(store, up, student_id, password, first)]
          /\ outage' = (outage \/ ~up)
    /\ UNCHANGED <<store, nextId, pc, pending, overlapped, imp, files, superseded>>

GetByStudentId ==
    /\ \E student_id \in LoginIdSamples(store), up \in BOOLEAN :
       \E first \in FirstRows(ActiveWithStudentId(store, student_id)) :
          /\ ret' = [op |-> "get_by_student_id", student_id |-> student_id,
                     user |-> GetByStudentIdOutcome(store, up, student_id, first)]
          /\ outage' = (outage \/ ~up)
    /\ UNCHANGED <<store, nextId, pc, pending, overlapped, imp, files, superseded>>

\* ------------------------------------------------- the list_students route
\* lines 42-43: per_page = min(max(per_page, 5), 100) and page = max(page, 1)
ClampPerPage(per_page) == Min(Max(per_page, 5), 100)

ClampPage(page) == Max(page, 1)

\* the page and per_page query parameters of the requests
PageParamSamples == {0, 3}

PerPageParamSamples == {2, 20}

\* pagination=None of the error page
NoPagination == [none |-> TRUE]

ListFlash == "Error retrieving student list"

\* what render_template is given; classes is always empty, get_all_classes
\* subscripts its rows by position and answers [] from its except branch
ListResponse(students, pagination, flash) ==
    [op |-> "list_students", students |-> students, pagination |-> pagination,
     classes |-> <<>>, flash |-> flash]

\* list_students: the parameters are clamped, get_paginated is called and an
\* exception of it becomes the empty list with the flashed error
ListStudents ==
    /\ \E page \in PageParamSamples, per_page \in PerPageParamSamples, up \in BOOLEAN :
       LET a == PageArg(ClampPage(page), ClampPerPage(per_page), <<>>, <<>>, <<>>,
                        "last_name", tAsc)
       IN \E order \in (IF up THEN PageOrders(store, a) ELSE {<<>>}) :
          LET result == GetPaginatedOutcome(store, up, a, order)
          IN /\ ret' = IF result.raised
                       THEN ListResponse(<<>>, NoPagination, ListFlash)
                       ELSE ListResponse(result.items,
                                         Pagination(result.page, result.per_page,
                                                    result.total), "")
             /\ outage' = (outage \/ ~up)
    /\ UNCHANGED <<store, nextId, pc, pending, overlapped, imp, files, superseded>>

\* -------------------------------------------------------------- bulk import
RequiredFields == <<"first_name", "last_name", "gender", "date_of_birth", "class_name">>

\* header rows of the imported files: the required columns plus guardian_name,
\* and a header that lacks class_name
HeaderSamples ==
    { <<"first_name", "last_name", "gender", "date_of_birth", "class_name", "guardian_name">>,
      <<"first_name", "last_name", "gender", "date_of_birth">> }

LineRow(fields) == [kind |-> "row", fields |-> fields]

\* a line that is empty: csv.DictReader skips it
BlankLine == [kind |-> "blank", fields |-> <<>>]

\* a line with a field longer than csv.field_size_limit(): the reader raises
\* csv.Error when it is fetched
OversizedLine == [kind |-> "oversized", fields |-> <<>>]

tDob == <<"1">>

ValidLine == LineRow(<<<<" ", "A">>, tAb, tF, tDob, tC1, tB>>)

\* the physical lines after the header
LineSamples ==
    { ValidLine,
      LineRow(<<tA, <<>>, tF, tDob, tC1, tB>>),
      LineRow(<<tA, <<" ">>, tF, tDob, <<>>, tB>>),
      LineRow(<<tA, tAb, tF>>),
      LineRow(<<tA, tAb, tF, tDob, tC1>>),
      BlankLine,
      OversizedLine }

HeaderOf6 == <<"first_name", "last_name", "gender", "date_of_birth", "class_name", "guardian_name">>

\* five data rows, the third without last_name
ExampleFile ==
    [header |-> HeaderOf6,
     lines |-> <<ValidLine, ValidLine, LineRow(<<tA, <<>>, tF, tDob, tC1, tB>>),
                 ValidLine, ValidLine>>]

Files ==
    { [header |-> h, lines |-> l] :
         h \in HeaderSamples, l \in UNION {[1..n -> LineSamples] : n \in 0..MaxLines} }
    \cup {ExampleFile}

PyNone == [none |-> TRUE, text |-> <<>>]

PyStr(t) == [none |-> FALSE, text |-> t]

\* csv.DictReader: dict(zip(fieldnames, row)), a short row filled with None,
\* and dict.get(name, '') on it
RowGet(header, fields, name) ==
    IF \E i \in 1..Len(header) : header[i] = name
    THEN LET i == CHOOSE k \in 1..Len(header) : header[k] = name
         IN IF i <= Len(fields) THEN PyStr(fields[i]) ELSE PyNone
    ELSE PyStr(<<>>)

\* line 626: the required fields whose value is empty after strip(), in the
\* order of required_fields; None has no strip() and raises AttributeError
MissingFields(header, fields) ==
    LET IsNone(f) == RowGet(header, fields, f).none
        IsMissing(f) == Strip(RowGet(header, fields, f).text) = <<>>
    IN IF \E i \in 1..Len(RequiredFields) : IsNone(RequiredFields[i])
       THEN [raised |-> TRUE, fields |-> <<>>]
       ELSE [raised |-> FALSE, fields |-> SelectSeq(RequiredFields, IsMissing)]

\* the message of an error_details entry; the list of field names stands for
\* its ', '.join
Message(kind, fields) == [kind |-> kind, fields |-> fields]

\* lines 637-652: student_data of a row whose required fields are present
StudentData(header, fields) ==
    [first_name |-> Strip(RowGet(header, fields, "first_name").text),
     last_name |-> Strip(RowGet(header, fields, "last_name").text),
     gender |-> Strip(RowGet(header, fields, "gender").text),
     class_name |-> Strip(RowGet(header, fields, "class_name").text),
     guardian_name |-> Strip(RowGet(header, fields, "guardian_name").text),
     admission_date |-> <<"2">>]

\* the row passes lines 623-652 and Student.create is called
ReachesCreate(header, fields) ==
    /\ ~MissingFields(header, fields).raised
    /\ MissingFields(header, fields).fields = <<>>
    /\ ~RowGet(header, fields, "guardian_name").none

\* a loop body that calls Student.create without looking at the row first
RowResultCreateFirst(header, fields, st, u, upGen, upIns) ==
    IF upIns
    THEN [kind |-> "created", message |-> Message("", <<>>),
          student_id |-> GenerateStudentId(st, upGen, u)]
    ELSE [kind |-> "raised", message |-> Message("Failed to create student", <<>>),
          student_id |-> <<>>]

\* lines 623-663: what one row comes to. u, upGen, upIns are the uuid draw and
\* the store's answers to the count query and the INSERT of Student.create
RowResult(header, fields, st, u, upGen, upIns) ==
    LET missing == MissingFields(header, fields)
    IN IF missing.raised
       THEN [kind |-> "raised", message |-> Message("AttributeError", <<>>),
             student_id |-> <<>>]
       ELSE IF missing.fields # <<>>
       THEN [kind |-> "missing", message |-> Message("Missing required fields", missing.fields),
             student_id |-> <<>>]
       ELSE IF RowGet(header, fields, "guardian_name").none
       THEN [kind |-> "raised", message |-> Message("AttributeError", <<>>),
             student_id |-> <<>>]
       ELSE IF ~upIns
       THEN [kind |-> "raised", message |-> Message("Failed to create student", <<>>),
             student_id |-> <<>>]
       ELSE [kind |-> "created", message |-> Message("", <<>>),
             student_id |-> GenerateStudentId(st, upGen, u)]

\* the enumeration started without the header row
FirstRowNumNoHeader == 2 - 1

\* enumerate(reader, start=2)
FirstRowNum == 2

\* the loop body's bookkeeping without the inner except: an exception of the
\* row reaches the outer handler
AfterRowNoCatch(im, res) ==
    LET seen == [im EXCEPT !.pos = im.pos + 1, !.row_num = im.row_num + 1,
                           !.yielded = Append(im.yielded,
                                              [line |-> im.pos, created |-> res.kind = "created"])]
    IN IF res.kind = "created" THEN [seen EXCEPT !.imported = im.imported + 1]
       ELSE IF res.kind = "raised" THEN [seen EXCEPT !.phase = "done", !.failed = TRUE]
       ELSE [seen EXCEPT !.errors = im.errors + 1,
                         !.error_details = Append(im.error_details,
                                                  [row |-> im.row_num, message |-> res.message])]

\* the loop body's bookkeeping for one row: lines 628-634, 656, 658-663
AfterRow(im, res) ==
    LET seen == [im EXCEPT !.pos = im.pos + 1, !.row_num = im.row_num + 1,
                           !.yielded = Append(im.yielded,
                                              [line |-> im.pos, created |-> res.kind = "created"])]
    IN IF res.kind = "created" THEN [seen EXCEPT !.imported = im.imported + 1]
       ELSE [seen EXCEPT !.errors = im.errors + 1,
                         !.error_details = Append(im.error_details,
                                                  [row |-> im.row_num, message |-> res.message])]

\* lines 674-679
FailureOutcome ==
    [op |-> "bulk_import", raised |-> FALSE, success |-> FALSE, imported |-> 0,
     errors |-> 0, error_details |-> <<>>]

\* lines 665-670
SuccessOutcome(im) ==
    [op |-> "bulk_import", raised |-> FALSE, success |-> TRUE, imported |-> im.imported,
     errors |-> im.errors, error_details |-> im.error_details]

\* lines 613-620: the upload is read and decoded, the counters are set
ImportBegin ==
    /\ imp.phase = "idle"
    /\ \E file \in Files, decodes \in BOOLEAN :
          IF decodes
          THEN /\ imp' = [phase |-> "rows", header |-> file.header, lines |-> file.lines,
                          pos |-> 1, row_num |-> FirstRowNum, imported |-> 0, errors |-> 0,
                          error_details |-> <<>>, yielded |-> <<>>, failed |-> FALSE,
                          decoded |-> TRUE, base |-> Len(store), round |-> 1,
                          start |-> Len(store)]
               /\ ret' = NoRet
          ELSE /\ imp' = [phase |-> "done", header |-> file.header, lines |-> <<>>,
                          pos |-> 1, row_num |-> FirstRowNum, imported |-> 0, errors |-> 0,
                          error_details |-> <<>>, yielded |-> <<>>, failed |-> TRUE,
                          decoded |-> FALSE, base |-> Len(store), round |-> 1,
                          start |-> Len(store)]
               /\ ret' = FailureOutcome
    /\ UNCHANGED <<store, nextId, pc, pending, overlapped, outage, files, superseded>>

AtLine(kind) ==
    /\ imp.phase = "rows"
    /\ imp.pos <= Len(imp.lines)
    /\ imp.lines[imp.pos].kind = kind

\* the reader passes over an empty line without yielding a row
ImportSkipBlank ==
    /\ AtLine("blank")
    /\ imp' = [imp EXCEPT !.pos = imp.pos + 1]
    /\ ret' = NoRet
    /\ UNCHANGED <<store, nextId, pc, pending, overlapped, outage, files, superseded>>

\* the reader raises while fetching a row: lines 672-679
ImportReaderError ==
    /\ AtLine("oversized")
    /\ imp' = [imp EXCEPT !.phase = "done", !.failed = TRUE]
    /\ ret' = FailureOutcome
    /\ UNCHANGED <<store, nextId, pc, pending, overlapped, outage, files, superseded>>

\* one iteration of the loop over the rows
ImportRow ==
    /\ AtLine("row")
    /\ \E u \in UuidDraws, upGen \in BOOLEAN, upIns \in BOOLEAN :
          LET res == RowResult(imp.header, imp.lines[imp.pos].fields, store, u, upGen, upIns)
              im == AfterRow(imp, res)
          IN /\ imp' = im
             /\ ret' = IF im.phase = "done" THEN FailureOutcome ELSE NoRet
             /\ outage' = (outage \/ (ReachesCreate(imp.header, imp.lines[imp.pos].fields)
                                        /\ (~upGen \/ ~upIns)))
             /\ IF res.kind = "created"
                THEN /\ store' = Append(store,
                                        NewRow(nextId, res.student_id,
                                               StudentData(imp.header, imp.lines[imp.pos].fields)))
                     /\ nextId' = nextId + 1
                ELSE UNCHANGED <<store, nextId>>
    /\ UNCHANGED <<pc, pending, overlapped, files, superseded>>

\* the same upload is sent a second time after the first call returned:
\* lines 613-620 over the same bytes, which decode as they did before
ImportAgain ==
    /\ imp.phase = "done"
    /\ imp.round = 1
    /\ imp.decoded
    /\ imp' = [imp EXCEPT !.phase = "rows", !.pos = 1, !.row_num = FirstRowNum,
                          !.imported = 0, !.errors = 0, !.error_details = <<>>,
                          !.yielded = <<>>, !.failed = FALSE, !.base = Len(store),
                          !.round = 2]
    /\ ret' = NoRet
    /\ UNCHANGED <<store, nextId, pc, pending, overlapped, outage, files, superseded>>

\* the reader is exhausted: lines 665-670
ImportReturn ==
    /\ imp.phase = "rows"
    /\ imp.pos > Len(imp.lines)
    /\ imp' = [imp EXCEPT !.phase = "done"]
    /\ ret' = SuccessOutcome(imp)
    /\ UNCHANGED <<store, nextId, pc, pending, overlapped, outage, files, superseded>>

\* ------------------------------------------------------------ photo storage
UploadFolders ==
    [students |-> "static/uploads/students", teachers |-> "static/uploads/teachers",
     events |-> "static/uploads/events", documents |-> "static/uploads/documents"]

ImageExtensions ==
    { <<"p", "n", "g">>, <<"j", "p", "g">>, <<"j", "p", "e", "g">>, <<"g", "i", "f">>,
      <<"w", "e", "b", "p">> }

DocumentExtensions ==
    { <<"p", "d", "f">>, <<"d", "o", "c">>, <<"d", "o", "c", "x">>, <<"t", "x", "t">>,
      <<"r", "t", "f">> }

SpreadsheetExtensions == { <<"x", "l", "s">>, <<"x", "l", "s", "x">>, <<"c", "s", "v">> }

AllowedExtensions ==
    [images |-> ImageExtensions, documents |-> DocumentExtensions,
     spreadsheets |-> SpreadsheetExtensions,
     all |-> ImageExtensions \cup DocumentExtensions \cup SpreadsheetExtensions]

MaxFileSizes ==
    [images |-> 5 * 1024 * 1024, documents |-> 10 * 1024 * 1024,
     spreadsheets |-> 5 * 1024 * 1024, default |-> 5 * 1024 * 1024]

\* the keys of IMAGE_SIZES in the order the loops visit them
ImageSizes == <<"thumbnail", "small", "medium", "large">>

HasDot(s) == \E i \in 1..Len(s) : s[i] = "."

LastDot(s) == CHOOSE i \in 1..Len(s) : s[i] = "." /\ \A j \in (i + 1)..Len(s) : s[j] # "."

\* filename.rsplit('.', 1)[1].lower() if '.' in filename else ''
Extension(filename) ==
    IF HasDot(filename)
    THEN Lower(SubSeq(filename, LastDot(filename) + 1, Len(filename)))
    ELSE <<>>

\* allowed_file
AllowedFile(filename, file_type) ==
    /\ filename # <<>>
    /\ Extension(filename) \in
          (IF file_type \in DOMAIN AllowedExtensions THEN AllowedExtensions[file_type]
           ELSE AllowedExtensions.all)

\* validate_file_size: (file_size <= max_size, file_size, max_size)
ValidateFileSize(file, file_type) ==
    LET max_size == IF file_type \in DOMAIN MaxFileSizes THEN MaxFileSizes[file_type]
                    ELSE MaxFileSizes.default
    IN [ok |-> file.size <= max_size, file_size |-> file.size, max_size |-> max_size]

\* generate_unique_filename: f"{prefix}_{timestamp}_{unique_id}{extension}",
\* stamp = datetime.now() to the second, u = the uuid drawn
GenerateUniqueFilename(original_filename, prefix, stamp, u) ==
    LET extension == IF HasDot(original_filename)
                     THEN <<".">> \o Extension(original_filename) ELSE <<>>
        unique_id == FirstChars(u, 8)
    IN IF prefix # <<>>
       THEN prefix \o <<"_">> \o stamp \o <<"_">> \o unique_id \o extension
       ELSE stamp \o <<"_">> \o unique_id \o extension

StudentWord == <<"s", "t", "u", "d", "e", "n", "t">>

\* f"student_{student_id}" if student_id else "student"; 0 stands for None
StudentPrefix(student_id) ==
    IF student_id # 0 THEN StudentWord \o <<"_">> \o Digits(student_id) ELSE StudentWord

\* os.path.join(base_folder, filename) and os.path.join(base_folder, size_name, filename)
OriginalPath(base_folder, filename) == [base |-> base_folder, size |-> "", name |-> filename]

SizePath(base_folder, size_name, filename) ==
    [base |-> base_folder, size |-> size_name, name |-> filename]

\* create_image_sizes that stopped after k sizes (k = 4: all of them; fewer
\* when Image.open or a save raised, which the function swallows)
SizesWritten(base_folder, filename, k) ==
    {SizePath(base_folder, ImageSizes[i], filename) : i \in 1..k}

NoError == [type |-> "none", text |-> "", sizes |-> <<>>]

\* Exception(f"Failed to save photo: {str(e)}"); sizes = the numbers the text holds
SaveFailure(text, sizes) == [type |-> "Exception", text |-> text, sizes |-> sizes]

InvalidTypeText == "Invalid file type. Only images are allowed."

TooLargeText == "File too large. Maximum size is {max_size // 1024 // 1024}MB"

\* save_student_photo on storage fs; saved = file.save succeeded, k = the sizes
\* create_image_sizes got written; a None result is the empty filename
SavePhotoOutcome(fs, file, student_id, stamp, u, saved, k) ==
    LET size == ValidateFileSize(file, "images")
        filename == GenerateUniqueFilename(file.filename, StudentPrefix(student_id), stamp, u)
        base == UploadFolders.students
        Rejected(error) == [raised |-> TRUE, error |-> error, filename |-> <<>>, files |-> fs]
    IN IF file.filename = <<>>
       THEN [raised |-> FALSE, error |-> NoError, filename |-> <<>>, files |-> fs]
       ELSE IF ~AllowedFile(file.filename, "images")
       THEN Rejected(SaveFailure(InvalidTypeText, <<>>))
       ELSE IF ~size.ok
       THEN Rejected(SaveFailure(TooLargeText, <<(size.max_size \div 1024) \div 1024>>))
       ELSE IF ~saved
       THEN Rejected(SaveFailure("file.save", <<>>))
       ELSE [raised |-> FALSE, error |-> NoError, filename |-> filename,
             files |-> fs \cup {OriginalPath(base, filename)}
                         \cup SizesWritten(base, filename, k)]

NameOf(chars, ext) == chars \o <<".">> \o ext

\* the uploaded files of the model: name and length in bytes
FileSamples ==
    { [filename |-> NameOf(tA, <<"J", "P", "G">>), size |-> 1024],
      [filename |-> NameOf(tB, <<"j", "p", "g">>), size |-> 5 * 1024 * 1024],
      [filename |-> NameOf(tA, <<"p", "n", "g">>), size |-> 5 * 1024 * 1024 + 1],
      [filename |-> NameOf(tB, <<"p", "n", "g">>), size |-> 6 * 1024 * 1024],
      [filename |-> NameOf(tA, <<"e", "x", "e">>), size |-> 1024],
      [filename |-> NameOf(tB, <<"e", "x", "e">>), size |-> 6 * 1024 * 1024],
      [filename |-> tAb, size |-> 1024],
      [filename |-> <<>>, size |-> 0] }

\* datetime.now().strftime('%Y%m%d_%H%M%S')
StampSamples == { <<"2", "0", "2", "6", "1", "1", "0", "6", "_", "1", "2", "0", "0", "0", "0">> }

\* the IDs of the rows of the table
RowIds(st) == {st[i].ID : i \in 1..Len(st)}

\* the file gets past the checks of save_student_photo and is written
PassesChecks(file) ==
    /\ AllowedFile(file.filename, "images")
    /\ ValidateFileSize(file, "images").ok

\* save_student_photo(file, student_id) for the student of an existing row;
\* the draws that only a written file uses are made for such a file only
SaveStudentPhoto ==
    /\ \E file \in FileSamples, student_id \in RowIds(store), stamp \in StampSamples :
       \E u \in (IF PassesChecks(file) THEN UuidDraws ELSE {<<>>}),
          saved \in (IF PassesChecks(file) THEN BOOLEAN ELSE {FALSE}) :
       \E k \in (IF saved THEN 0..Len(ImageSizes) ELSE {0}) :
          LET out == SavePhotoOutcome(files, file, student_id, stamp, u, saved, k)
          IN /\ files' = out.files
             /\ ret' = [op |-> "save_student_photo", raised |-> out.raised,
                        error |-> out.error, filename |-> out.filename,
                        file |-> file, student_id |-> student_id]
    /\ UNCHANGED <<store, nextId, pc, pending, overlapped, outage, imp, superseded>>

\* IMAGE_SIZES['thumbnail']
ThumbnailSize == [width |-> 150, height |-> 150]

\* widths and heights in pixels of the uploaded images
SideSamples == {1, 2, 3, 11, 15, 100, 149, 150, 151, 300, 1000}

\* the (img.width, img.height) among the samples for which the double
\* arithmetic of lines 252-262 ends just below the exact integer quotient, so
\* that int() truncates to one less (150 * (11 / 15) is 109.99999999999999)
DoubleShortfall == {<<11, 15>>, <<150, 149>>}

\* lines 252-262 for the thumbnail: img_ratio = img.width / img.height against
\* target_ratio = width / height, then int(width / img_ratio) or
\* int(height * img_ratio)
ResizedDimensions(img_width, img_height) ==
    LET width == ThumbnailSize.width
        height == ThumbnailSize.height
        short == IF <<img_width, img_height>> \in DoubleShortfall THEN 1 ELSE 0
    IN IF img_width * height > width * img_height
       THEN [new_width |-> width,
             new_height |-> (width * img_height) \div img_width - short]
       ELSE [new_width |-> (height * img_width) \div img_height - short,
             new_height |-> height]

\* a size img.resize cannot produce
EmptySize(dims) == dims.new_width < 1 \/ dims.new_height < 1

\* lines 264-273 for the thumbnail; resizes = img.resize accepts the size it is
\* given (for an empty size Pillow either raises ValueError, which the except
\* of line 286 swallows, or hands back an empty image)
ThumbnailOutcome(img_width, img_height, resizes) ==
    LET dims == ResizedDimensions(img_width, img_height)
        written == resizes \/ ~EmptySize(dims)
    IN [written |-> written,
        new_width |-> dims.new_width, new_height |-> dims.new_height,
        width |-> IF written THEN ThumbnailSize.width ELSE 0,
        height |-> IF written THEN ThumbnailSize.height ELSE 0,
        paste_x |-> (ThumbnailSize.width - dims.new_width) \div 2,
        paste_y |-> (ThumbnailSize.height - dims.new_height) \div 2]

\* the thumbnail step of create_image_sizes on an image of the given size
CreateThumbnail ==
    /\ \E img_width \in SideSamples, img_height \in SideSamples :
       \E resizes \in (IF EmptySize(ResizedDimensions(img_width, img_height))
                       THEN BOOLEAN ELSE {TRUE}) :
          ret' = [op |-> "create_image_sizes", img_width |-> img_width,
                  img_height |-> img_height,
                  thumbnail |-> ThumbnailOutcome(img_width, img_height, resizes)]
    /\ UNCHANGED <<store, nextId, pc, pending, overlapped, outage, imp, files, superseded>>

\* UPLOAD_FOLDERS.get(folder_type, UPLOAD_FOLDERS['students'])
BaseFolder(folder_type) ==
    IF folder_type \in DOMAIN UploadFolders THEN UploadFolders[folder_type]
    ELSE UploadFolders.students

\* a delete_file that forgets the sized versions
DeleteTargetsOriginalOnly(folder_type, filename) ==
    <<OriginalPath(BaseFolder(folder_type), filename)>>

\* the paths delete_file tests and removes, in its order
DeleteTargets(folder_type, filename) ==
    <<OriginalPath(BaseFolder(folder_type), filename)>>
    \o (IF folder_type \in {"students", "teachers"}
        THEN [i \in 1..Len(ImageSizes) |->
                 SizePath(BaseFolder(folder_type), ImageSizes[i], filename)]
        ELSE <<>>)

\* the removals of one delete_file call that may raise: none (0) or the first
FailAtSamples == {0, 1}

\* delete_file on storage fs; failAt = 0: no os.remove raised, failAt = j: the
\* j-th os.remove raised, which ends the call with False
DeleteOutcome(fs, filename, folder_type, failAt) ==
    LET Exists(p) == p \in fs
        present == SelectSeq(DeleteTargets(folder_type, filename), Exists)
        gone == {present[i] : i \in 1..(IF failAt = 0 THEN Len(present) ELSE failAt - 1)}
    IN IF filename = <<>>
       THEN [value |-> TRUE, files |-> fs, removed |-> 0]
       ELSE [value |-> failAt = 0, files |-> fs \ gone, removed |-> Cardinality(gone)]

\* a filename no upload of the model produces
NeverSaved == NameOf(tC1, <<"j", "p", "g">>)

\* the filenames a caller of delete_file names: stored ones, None, an unknown one
DeleteNameSamples(fs) == {p.name : p \in fs} \cup {<<>>, NeverSaved}

FolderTypeSamples == {"students", "teachers", "documents"}

\* delete_file(filename, folder_type)
DeleteFile ==
    /\ \E filename \in DeleteNameSamples(files), folder_type \in FolderTypeSamples,
          failAt \in FailAtSamples :
          LET out == DeleteOutcome(files, filename, folder_type, failAt)
              present == {i \in 1..Len(DeleteTargets(folder_type, filename)) :
                             DeleteTargets(folder_type, filename)[i] \in files}
          IN /\ failAt <= (IF filename = <<>> THEN 0 ELSE Cardinality(present))
             /\ files' = out.files
             /\ ret' = [op |-> "delete_file", value |-> out.value, filename |-> filename,
                        folder_type |-> folder_type, removed |-> out.removed]
    /\ UNCHANGED <<store, nextId, pc, pending, overlapped, outage, imp, superseded>>

\* ---------------------------------------------------------- retention sweep
\* datetime.now() of the sweep, in hours since an epoch
CleanupNow == 40 * 24

\* a stored file with its last-modified time (st_mtime), in hours
AgedFile(base_folder, size_name, filename, age_hours) ==
    [base |-> base_folder, size |-> size_name, name |-> filename,
     mtime |-> CleanupNow - age_hours]

\* files of several ages under the students and the teachers folder
CleanupFileSamples ==
    { AgedFile(UploadFolders.students, "", NameOf(tA, <<"j", "p", "g">>), 12),
      AgedFile(UploadFolders.students, "", NameOf(tB, <<"j", "p", "g">>), 25),
      AgedFile(UploadFolders.students, "small", NameOf(tA, <<"j", "p", "g">>), 30 * 24),
      AgedFile(UploadFolders.students, "thumbnail", NameOf(tA, <<"j", "p", "g">>),
               30 * 24 + 12),
      AgedFile(UploadFolders.students, "", NameOf(tC1, <<"j", "p", "g">>), 31 * 24),
      AgedFile(UploadFolders.teachers, "", NameOf(tA, <<"j", "p", "g">>), 35 * 24) }

RetentionSamples == {0, 1, 30}

\* (current_time - last_modified_time).days: the whole days of the difference
FileAgeDays(now, mtime) == (now - mtime) \div 24

\* the files os.walk(base_folder) visits
Walked(fs, folder_type) == {f \in fs : f.base = BaseFolder(folder_type)}

\* the visited files with file_age_days > retention_days
OldFiles(fs, folder_type, retention_days, now) ==
    {f \in Walked(fs, folder_type) : FileAgeDays(now, f.mtime) > retention_days}

\* cleanup_old_files on storage fs; fails = an os.stat or os.remove of the walk
\* raised after the files in removed were deleted, which ends the call with
\* False
CleanupOutcome(fs, folder_type, retention_days, now, fails, removed) ==
    IF fails THEN [value |-> FALSE, files |-> fs \ removed]
    ELSE [value |-> TRUE, files |-> fs \ OldFiles(fs, folder_type, retention_days, now)]

\* cleanup_old_files(folder_type, retention_days)
CleanupOldFiles ==
    /\ \E folder_type \in FolderTypeSamples, retention_days \in RetentionSamples,
          fails \in BOOLEAN :
       \E removed \in (IF fails
                       THEN SUBSET OldFiles(files, folder_type, retention_days, CleanupNow)
                       ELSE {{}}) :
          LET out == CleanupOutcome(files, folder_type, retention_days, CleanupNow,
                                    fails, removed)
          IN /\ fails => Walked(files, folder_type) # {}
             /\ files' = out.files
             /\ ret' = [op |-> "cleanup_old_files", value |-> out.value,
                        folder_type |-> folder_type, retention_days |-> retention_days]
    /\ UNCHANGED <<store, nextId, pc, pending, overlapped, outage, imp, superseded>>

\* storage holds any of the aged files when the sweep is first run
InitCleanup ==
    /\ store = <<>>
    /\ nextId = 1
    /\ pc = [p \in Procs |-> "idle"]
    /\ pending = [p \in Procs |-> NoReq]
    /\ overlapped = FALSE
    /\ outage = FALSE
    /\ imp = NoImport
    /\ ret = NoRet
    /\ files \in SUBSET CleanupFileSamples
    /\ superseded = {}

\* the Photo values of the rows with this ID
PhotosOf(st, id) == {st[i].Photo : i \in {j \in 1..Len(st) : st[j].ID = id}}

\* Student.update(student_id, student_data) with student_data['photo'] the
\* filename save_student_photo has just returned for that student, as
\* edit_student calls it (routes/students.py, lines 239-243)
UpdatePhoto ==
    /\ ret.op = "save_student_photo"
    /\ ~ret.raised
    /\ ret.filename # <<>>
    /\ \E up \in BOOLEAN :
          LET data == [vals |-> [photo |-> ret.filename], nones |-> {}]
          IN IF up
             THEN /\ store' = UpdateWhereId(store, ret.student_id, data)
                  /\ superseded' = superseded
                                      \cup (PhotosOf(store, ret.student_id) \ {NoPhoto, ret.filename})
                  /\ ret' = [op |-> "update", raised |-> FALSE]
                  /\ UNCHANGED outage
             ELSE /\ ret' = [op |-> "update", raised |-> TRUE]
                  /\ outage' = TRUE
                  /\ UNCHANGED <<store, superseded>>
    /\ UNCHANGED <<nextId, pc, pending, overlapped, imp, files>>

\* Student.get_by_id: the row with this ID through _row_to_dict; every
\* exception is swallowed and answers None
GetById(st, up, id) ==
    LET hits == {i \in 1..Len(st) : st[i].ID = id}
    IN IF ~up \/ hits = {} \/ RowToDict(st[CHOOSE i \in hits : TRUE], st).raised
       THEN [found |-> FALSE, row |-> <<>>]
       ELSE [found |-> TRUE, row |-> st[CHOOSE i \in hits : TRUE]]

Answer(response) == [op |-> "edit_student", response |-> response]

\* edit_student: the lookup, then for a POST the photo upload and Student.update
EditStudent ==
    /\ \E student_id \in IdSamples, up \in BOOLEAN :
          LET student == GetById(store, up, student_id)
          IN IF ~student.found
             THEN /\ ret' = Answer("Student not found")
                  /\ outage' = (outage \/ ~up)
                  /\ UNCHANGED <<store, files, superseded>>
             ELSE \E post \in BOOLEAN, form \in UpdateSamples, file \in FileSamples,
                     stamp \in StampSamples, u \in UuidDraws, saved \in BOOLEAN,
                     k \in 0..Len(ImageSizes), upd \in BOOLEAN :
                     LET upload == file.filename # <<>> /\ AllowedFile(file.filename, "images")
                         photo == SavePhotoOutcome(files, file, student_id, stamp, u, saved, k)
                         fields == IF upload THEN DOMAIN form.vals \cup {"photo"}
                                   ELSE DOMAIN form.vals
                         student_data ==
                             [vals |-> [f \in fields |->
                                           IF upload /\ f = "photo" THEN photo.filename
                                           ELSE form.vals[f]],
                              nones |-> form.nones \ fields]
                     IN IF ~post
                        THEN /\ ret' = Answer("students/edit.html")
                             /\ UNCHANGED <<store, files, superseded, outage>>
                        ELSE IF upload /\ photo.raised
                        THEN /\ ret' = Answer("Error updating student")
                             /\ UNCHANGED <<store, files, superseded, outage>>
                        ELSE /\ files' = (IF upload THEN photo.files ELSE files)
                             /\ IF upd \/ UpdateFields(student_data) = {}
                                THEN /\ store' = UpdateWhereId(store, student_id, student_data)
                                     /\ superseded' =
                                           (IF upload
                                            THEN superseded
                                                    \cup (PhotosOf(store, student_id)
                                                             \ {NoPhoto, photo.filename})
                                            ELSE superseded)
                                     /\ ret' = Answer("Student updated successfully")
                                     /\ UNCHANGED outage
                                ELSE /\ ret' = Answer("Error updating student")
                                     /\ outage' = TRUE
                                     /\ UNCHANGED <<store, superseded>>
    /\ UNCHANGED <<nextId, pc, pending, overlapped, imp>>

\* the request data of the student the photo runs start with
FirstStudentData ==
    [first_name |-> tA, last_name |-> tAb, gender |-> tF, class_name |-> tC1,
     guardian_name |-> tB, admission_date |-> <<"2">>]

FirstStudentUuid == <<"3", "f", "2", "a", "9", "c", "1", "b">>

\* the table after one Student.create on the empty table
InitPhoto ==
    /\ store = <<NewRow(1, GenerateStudentId(<<>>, TRUE, FirstStudentUuid), FirstStudentData)>>
    /\ nextId = 2
    /\ pc = [p \in Procs |-> "idle"]
    /\ pending = [p \in Procs |-> NoReq]
    /\ overlapped = FALSE
    /\ outage = FALSE
    /\ imp = NoImport
    /\ ret = NoRet
    /\ files = {}
    /\ superseded = {}

Init ==
    /\ store = <<>>
    /\ nextId = 1
    /\ pc = [p \in Procs |-> "idle"]
    /\ pending = [p \in Procs |-> NoReq]
    /\ overlapped = FALSE
    /\ outage = FALSE
    /\ imp = NoImport
    /\ ret = NoRet
    /\ files = {}
    /\ superseded = {}

\* several requests inside Student.create at once
NextCreate ==
    \/ \E p \in Procs : CreateBegin(p)
    \/ \E p \in Procs : CreateInsert(p)

SpecCreate == Init /\ [][NextCreate]_vars

\* the directory operations of one request at a time
Next ==
    \/ CreateBegin(1)
    \/ CreateInsert(1)
    \/ Update
    \/ SoftDelete
    \/ UpdateStatus
    \/ GetAll
    \/ GetPaginated
    \/ ListStudents

Spec == Init /\ [][Next]_vars

\* a bulk import of an uploaded file into an empty table, and the import of
\* the same file once more
NextImport ==
    \/ ImportBegin
    \/ ImportAgain
    \/ ImportSkipBlank
    \/ ImportReaderError
    \/ ImportRow
    \/ ImportReturn

SpecImport == Init /\ [][NextImport]_vars

\* logins and lookups by identifier between creations and status changes
NextLogin ==
    \/ CreateBegin(1)
    \/ CreateInsert(1)
    \/ SoftDelete
    \/ UpdateStatus
    \/ Authenticate
    \/ GetByStudentId

SpecLogin == Init /\ [][NextLogin]_vars

\* the pagination arithmetic of get_paginated over pages, page sizes and totals
NextPagination == Paginate

SpecPagination == Init /\ [][NextPagination]_vars

\* thumbnails of images of every sampled width and height
NextThumbnail == CreateThumbnail

SpecThumbnail == Init /\ [][NextThumbnail]_vars

\* retention sweeps over stored files of several ages
NextCleanup == CleanupOldFiles

SpecCleanup == InitCleanup /\ [][NextCleanup]_vars

\* photo uploads, replacements and deletions for the student of one row
NextPhoto ==
    \/ SaveStudentPhoto
    \/ UpdatePhoto
    \/ DeleteFile
    \/ EditStudent

SpecPhoto == InitPhoto /\ [][NextPhoto]_vars

\* ------------------------------------------------------------------ claims
NoStoreFailure == ~outage

\* C1: in every interleaving of concurrent Student.create calls, no two rows
\* of the table ever hold the same StudentID.
UniqueStudentIds ==
    NoStoreFailure =>
        \A i, j \in 1..Len(store) : i # j => store[i].StudentID # store[j].StudentID

\* C2: from an empty store, sequential Student.create calls produce pairwise
\* distinct identifiers and the first one is STU + two-digit year + 0001.
SequentialIdsDistinctFirstIs0001 ==
    (NoStoreFailure /\ ~overlapped /\ store # <<>>) =>
        /\ store[1].StudentID = STU \o YearSuffix \o <<"0", "0", "0", "1">>
        /\ \A i, j \in 1..Len(store) : i # j => store[i].StudentID # store[j].StudentID

\* C3: every identifier _generate_student_id returns is STU, two year digits
\* and exactly four sequence digits: nine characters that
\* validate_student_id_format accepts.
GeneratedIdWellFormed ==
    \A p \in Procs :
        (NoStoreFailure /\ pc[p] = "insert") =>
            /\ Len(pending[p].student_id) = 9
            /\ SubSeq(pending[p].student_id, 4, 5) = YearSuffix
            /\ ValidateStudentIdFormat(pending[p].student_id)

\* the smallest k with k * d >= n
CeilDiv(n, d) == CHOOSE k \in 0..n : k * d >= n /\ \A m \in 0..n : m * d >= n => k <= m

\* C8: get_paginated returns total = number of active rows matching the
\* filter, counted before offset and limit, and pages = ceil(total / per_page).
PaginatedTotalAndPages ==
    (ret.op = "get_paginated" /\ NoStoreFailure) =>
        /\ ~ret.raised
        /\ ret.total = Cardinality(MatchIdx(store, ret.args))
        /\ ret.pages = CeilDiv(ret.total, ret.args.per_page)

\* C9: against an unchanging store, get_paginated returns
\* max(0, min(per_page, total - (page - 1) * per_page)) items.
PaginatedItemCount ==
    (ret.op = "get_paginated" /\ NoStoreFailure) =>
        /\ ~ret.raised
        /\ Len(ret.items) =
              Max(0, Min(ret.args.per_page,
                         Cardinality(MatchIdx(store, ret.args))
                            - (ret.args.page - 1) * ret.args.per_page))

ImportReturned == imp.phase = "done" /\ ret.op = "bulk_import"

\* C4: the outcome bulk_import_from_csv returns has imported + errors equal to
\* the number of data rows processed, and as many error_details as errors.
ImportCountsAddUp ==
    ImportReturned =>
        /\ ret.imported + ret.errors = Len(imp.yielded)
        /\ Len(ret.error_details) = ret.errors

\* the lines of the file that are data rows
DataRows(lines) == {i \in 1..Len(lines) : lines[i].kind # "blank"}

ReaderRaises(lines) == \E i \in 1..Len(lines) : lines[i].kind = "oversized"

\* C5: a failing row (missing required field, or an exception of
\* Student.create) never stops the batch and never reaches the caller: every
\* later row is processed and a complete outcome is returned, also when every
\* row fails.
RowFailureNeverStopsBatch ==
    /\ ret.op = "bulk_import" => ~ret.raised
    /\ (ImportReturned /\ imp.decoded /\ ~ReaderRaises(imp.lines)) =>
          /\ ret.success
          /\ imp.pos = Len(imp.lines) + 1
          /\ Len(imp.yielded) = Cardinality(DataRows(imp.lines))
          /\ ret.imported + ret.errors = Cardinality(DataRows(imp.lines))
          /\ Len(ret.error_details) = ret.errors

\* a returned import in which every one of at least two rows failed, one for
\* a missing field and one in Student.create
EveryRowFailed ==
    /\ ImportReturned
    /\ ret.success
    /\ ret.imported = 0
    /\ ret.errors >= 2
    /\ \E k \in 1..Len(ret.error_details) :
          ret.error_details[k].message.kind = "Failed to create student"
    /\ \E k \in 1..Len(ret.error_details) :
          ret.error_details[k].message.kind = "Missing required fields"

\* the numbers k + 1 of the rejected rows, k the position among the data rows
RejectedRowNumbers(yielded) ==
    LET numbers == [k \in 1..Len(yielded) |-> k + 1]
        Rejected(n) == ~yielded[n - 1].created
    IN SelectSeq(numbers, Rejected)

\* C6: each rejected row adds exactly one error_details entry whose row number
\* is k + 1 for the k-th data row (the header is row 1), in ascending order;
\* five rows with the third lacking last_name give imported 4, errors 1 and
\* one entry with row 4.
ErrorDetailsRowNumbers ==
    /\ imp.phase # "idle" =>
          [k \in 1..Len(imp.error_details) |-> imp.error_details[k].row]
             = RejectedRowNumbers(imp.yielded)
    /\ (ImportReturned /\ ret.success) => ret.error_details = imp.error_details
    /\ (ImportReturned /\ NoStoreFailure /\ imp.decoded
          /\ imp.header = ExampleFile.header /\ imp.lines = ExampleFile.lines) =>
          /\ ret.imported = 4
          /\ ret.errors = 1
          /\ ret.error_details =
                <<[row |-> 4, message |-> Message("Missing required fields", <<"last_name">>)]>>

\* the five-row file was imported and its third row rejected
ExampleFileImported ==
    /\ ImportReturned
    /\ NoStoreFailure
    /\ imp.lines = ExampleFile.lines
    /\ ret.success
    /\ ret.errors = 1

\* the required fields that a row lacks: no such column, no such cell in a
\* short row, or nothing left after trimming
LacksField(header, fields, f) ==
    \/ \A i \in 1..Len(header) : header[i] # f
    \/ \E i \in 1..Len(header) :
          header[i] = f /\ (i > Len(fields) \/ Strip(fields[i]) = <<>>)

\* C7: a row that lacks one or more required fields, also a short row, is
\* rejected with one message that names every missing required field.
MissingFieldsAllNamed ==
    imp.phase # "idle" =>
        \A k \in 1..Len(imp.yielded) :
            LET fields == imp.lines[imp.yielded[k].line].fields
                Lacks(f) == LacksField(imp.header, fields, f)
                lacking == SelectSeq(RequiredFields, Lacks)
            IN lacking # <<>> =>
                  \E e \in 1..Len(imp.error_details) :
                      imp.error_details[e] =
                          [row |-> k + 1,
                           message |-> Message("Missing required fields", lacking)]

\* C11: a sort_by outside the allow-list makes get_paginated fail no more than
\* sort_by = last_name does and order exactly as last_name does; the ORDER BY
\* column is a name of sort_column_map, never the supplied value.
InvalidSortByFallsBack ==
    (ret.op = "get_paginated" /\ ret.args.sort_by \notin ValidSortColumns) =>
        LET a == ret.args
            b == [a EXCEPT !.sort_by = "last_name"]
        IN /\ SortColumn(a) = "LastName"
           /\ PageOrders(store, a) = PageOrders(store, b)
           /\ \E up \in BOOLEAN, order \in PageOrders(store, b) :
                 ret = [GetPaginatedOutcome(store, up, b, order) EXCEPT !.args = a]

\* get_paginated was called with an unknown sort_by over two matching rows
\* that last name and first name order differently
InvalidSortByOverTwoRows ==
    /\ ret.op = "get_paginated"
    /\ ret.args.sort_by \notin ValidSortColumns
    /\ \E i, j \in MatchIdx(store, ret.args) :
          /\ ~TextLeq(store[j].LastName, store[i].LastName)
          /\ ~TextLeq(store[i].FirstName, store[j].FirstName)

Range(f) == {f[i] : i \in DOMAIN f}

\* C12: rows that tie on the sort column come in one fixed order, so two calls
\* with the same arguments see the same page and the pages 1..pages hold every
\* matching row exactly once.
PaginationOrderStable ==
    ret.op = "get_paginated" =>
        LET a == ret.args
            orders == PageOrders(store, a)
            pages == CeilDiv(Cardinality(MatchIdx(store, a)), a.per_page)
            PageOf(o, p) == OffsetFetch(o, (p - 1) * a.per_page, a.per_page)
        IN /\ \A o1, o2 \in orders : PageOf(o1, a.page) = PageOf(o2, a.page)
           /\ \A o1, o2 \in orders : \A p, q \in 1..pages :
                 p # q => Range(PageOf(o1, p)) \cap Range(PageOf(o2, q)) = {}

\* the rows the claim of C13 selects: active, the search text occurring
\* (without regard to case) in one of the four columns, class and gender equal
ClaimedSelection(st, a) ==
    {i \in 1..Len(st) :
        /\ st[i].Status = "active"
        /\ \/ a.search = <<>>
           \/ Contains(Lower(st[i].FirstName), Lower(a.search))
           \/ Contains(Lower(st[i].LastName), Lower(a.search))
           \/ Contains(Lower(st[i].StudentID), Lower(a.search))
           \/ Contains(Lower(st[i].GuardianName), Lower(a.search))
        /\ (a.class_filter = <<>> \/ TextEq(st[i].Class, a.class_filter))
        /\ (a.gender_filter = <<>> \/ TextEq(st[i].Gender, a.gender_filter))}

\* C13: the rows the WHERE clause of get_paginated selects are exactly the
\* active rows in which the search text occurs in first name, last name,
\* identifier or guardian name and whose class and gender equal the filters.
SelectionIsClaimedSet ==
    ret.op = "get_paginated" => MatchIdx(store, ret.args) = ClaimedSelection(store, ret.args)

\* C14: no call changes the StudentID of a row that exists: not Student.update
\* with any data mapping, not soft_delete, not update_status.
StudentIdImmutable ==
    [][/\ Len(store') >= Len(store)
       /\ \A i \in 1..Len(store) : store'[i].StudentID = store[i].StudentID]_vars

\* Student.update returned after it rewrote the class of the first sample's row
UpdatedRowKeepsId ==
    /\ ret.op = "update"
    /\ ~ret.raised
    /\ \E i \in 1..Len(store) :
          /\ store[i].FirstName = tA
          /\ store[i].Class = tC2
          /\ FirstChars(store[i].StudentID, 3) = STU

\* C15: in every reachable state the status of every row is active or
\* inactive.
StatusActiveOrInactive ==
    \A i \in 1..Len(store) : store[i].Status \in {"active", "inactive"}

\* C16: _generate_student_id always hands an identifier to Student.create,
\* also when the store is unreachable for its count query, and then one that
\* starts with STU; Student.create raises only when a store call, the INSERT,
\* has failed.
GenerationNeverRaises ==
    /\ \A u \in UuidDraws : FirstChars(GenerateStudentId(store, FALSE, u), 3) = STU
    /\ \A p \in Procs :
          pc[p] = "insert" =>
              /\ Len(pending[p].student_id) > 3
              /\ FirstChars(pending[p].student_id, 3) = STU
    /\ (ret.op = "create" /\ ret.raised) => outage
    /\ (ret.op = "create" /\ ~ret.raised) => FirstChars(ret.student_id, 3) = STU

\* a row was inserted under an identifier generated in a run with a store
\* failure, while another creation is between generation and INSERT
CreatedDespiteOutage ==
    /\ outage
    /\ ret.op = "create"
    /\ ~ret.raised
    /\ store # <<>>
    /\ \E p \in Procs : pc[p] = "insert"

\* the error text names the size n, in bytes or in whole megabytes
ReportsSize(error, n) ==
    \E i \in 1..Len(error.sizes) :
        error.sizes[i] = n \/ error.sizes[i] = (n \div 1024) \div 1024

\* C18: save_student_photo rejects a file with a wrong extension with the
\* invalid-type error whatever its size, and an image over 5 MiB with the
\* too-large error that names the actual and the maximum size; a rejected
\* upload leaves file storage as it was.
PhotoRejectedBeforeWrite ==
    [][(ret'.op = "save_student_photo" /\ ret'.file.filename # <<>>) =>
          LET file == ret'.file
              size == ValidateFileSize(file, "images")
          IN /\ ~AllowedFile(file.filename, "images") =>
                   /\ ret'.raised
                   /\ ret'.error.text = InvalidTypeText
                   /\ files' = files
             /\ (AllowedFile(file.filename, "images") /\ ~size.ok) =>
                   /\ ret'.raised
                   /\ ret'.error.text = TooLargeText
                   /\ ReportsSize(ret'.error, size.max_size)
                   /\ ReportsSize(ret'.error, size.file_size)
                   /\ files' = files]_vars

ReferencedPhotos(st) == {st[i].Photo : i \in 1..Len(st)} \ {NoPhoto}

\* C20: no file of a photo that was replaced in its row is left in storage,
\* unless a row refers to that filename again.
SupersededPhotosRemoved ==
    \A p \in files : p.name \in superseded => p.name \in ReferencedPhotos(store)

\* C21: whenever save_student_photo returns a stored filename, the original and
\* the thumbnail, small, medium and large version exist under that filename.
SavedPhotoHasEveryVariant ==
    (ret.op = "save_student_photo" /\ ~ret.raised /\ ret.filename # <<>>)
        => /\ OriginalPath(UploadFolders.students, ret.filename) \in files
           /\ \A i \in 1..Len(ImageSizes) :
                 SizePath(UploadFolders.students, ImageSizes[i], ret.filename) \in files

\* an import of a file of n >= 1 rows, each with a cell for every column and
\* a value for every required field, has returned for the second time and the
\* store answered every query
ValidFileImportedTwice ==
    /\ ImportReturned
    /\ imp.round = 2
    /\ NoStoreFailure
    /\ imp.lines # <<>>
    /\ \A i \in 1..Len(imp.lines) :
          /\ imp.lines[i].kind = "row"
          /\ ReachesCreate(imp.header, imp.lines[i].fields)

\* C22: importing the same valid N-row input twice in sequence adds 2*N records
\* with pairwise distinct identifiers; the second import neither overwrites nor
\* skips a record whose names exist already.
ReimportAddsDistinctRecords ==
    ValidFileImportedTwice =>
        /\ Len(store) = imp.start + 2 * Len(imp.lines)
        /\ \A i, j \in (imp.start + 1)..Len(store) :
              i # j => store[i].StudentID # store[j].StudentID

\* the row the loop is about to take lacks at least one required field
NextRowLacksRequiredField ==
    /\ AtLine("row")
    /\ \E i \in 1..Len(RequiredFields) :
          LacksField(imp.header, imp.lines[imp.pos].fields, RequiredFields[i])

\* C26: a bulk-import row rejected for missing required fields is rejected
\* before any persistence attempt: the step that takes it leaves the table and
\* its identity counter as they are and notices no store failure, so every
\* record an earlier row of the batch created is still present.
ValidationBeforePersistence ==
    [][NextRowLacksRequiredField =>
          /\ store' = store
          /\ nextId' = nextId
          /\ outage' = outage
          /\ imp'.imported = imp.imported
          /\ imp'.errors = imp.errors + 1]_vars

\* a row was rejected for missing fields after an earlier row of the same
\* batch was created, and the created record is in the table
RejectedAfterCreatedRow ==
    /\ imp.phase = "rows"
    /\ Len(store) > imp.base
    /\ \E j \in 2..Len(imp.yielded) :
          /\ imp.yielded[j - 1].created
          /\ \E e \in 1..Len(imp.error_details) :
                /\ imp.error_details[e].row = j + 1
                /\ imp.error_details[e].message.kind = "Missing required fields"

\* C27: the imported count bulk_import_from_csv returns equals the number of
\* records the call added to the store, also when the reader raises while
\* fetching a later row.
ImportedCountIsRowsAdded ==
    ImportReturned => ret.imported = Len(store) - imp.base

\* C23: a store failure during a query of get_paginated ends the call with
\* the reported error and no Pagination Result, never a result built from one
\* query only; list_students then shows the empty list with the error flash.
StoreFailureAbortsListing ==
    [][(~outage /\ outage') =>
          /\ ret'.op = "get_paginated" =>
                /\ ret'.raised
                /\ ret'.items = <<>>
                /\ DOMAIN ret' \cap {"total", "pages", "page", "per_page", "has_prev",
                                     "has_next", "prev_num", "next_num"} = {}
          /\ ret'.op = "list_students" =>
                /\ ret'.students = <<>>
                /\ ret'.pagination = NoPagination
                /\ ret'.flash = ListFlash]_vars

\* list_students answered over a table with an active student while the
\* store was failing
ListingFailedOverStudents ==
    /\ ret.op = "list_students"
    /\ outage
    /\ ActiveIdx(store) # {}
    /\ ret.students = <<>>
    /\ ret.flash = ListFlash

\* C28: one get_paginated call reports a total and a page of items that fit
\* one state of the store, also with another request's create or soft-delete
\* in between: the number of items is
\* max(0, min(per_page, total - (page - 1) * per_page)) for the reported total.
PageFitsReportedTotal ==
    (ret.op = "get_paginated" /\ NoStoreFailure) =>
        /\ ~ret.raised
        /\ Len(ret.items) =
              Max(0, Min(ret.per_page, ret.total - (ret.page - 1) * ret.per_page))

ThumbnailExactAndCentered ==
    ret.op = "create_image_sizes" =>
        /\ ret.thumbnail.written
        /\ ret.thumbnail.width = 150 /\ ret.thumbnail.height = 150
        /\ 1 <= ret.thumbnail.new_width /\ ret.thumbnail.new_width <= 150
        /\ 1 <= ret.thumbnail.new_height /\ ret.thumbnail.new_height <= 150
        /\ ret.thumbnail.paste_x = (150 - ret.thumbnail.new_width) \div 2
        /\ ret.thumbnail.paste_y = (150 - ret.thumbnail.new_height) \div 2
        /\ 0 <= ret.thumbnail.paste_x
        /\ ret.thumbnail.paste_x + ret.thumbnail.new_width <= 150
        /\ 0 <= ret.thumbnail.paste_y
        /\ ret.thumbnail.paste_y + ret.thumbnail.new_height <= 150

\* C25: a cleanup_old_files call that completes removes every file of the
\* subtree whose last-modified time is older than the retention window
\* (now - mtime > retention_days days, also when older by less than one full
\* day) and removes no file whose age is within the window.
CleanupRemovesExactlyExpired ==
    [][(ret'.op = "cleanup_old_files" /\ ret'.value) =>
          \A f \in files :
              IF f \in Walked(files, ret'.folder_type)
                 /\ CleanupNow - f.mtime > ret'.retention_days * 24
              THEN f \notin files'
              ELSE f \in files']_vars

\* some row with this identifier is inactive
InactiveStudent(student_id) ==
    \E i \in 1..Len(store) :
        store[i].StudentID = student_id /\ store[i].Status = "inactive"

====
